---- MODULE Spec2Model ----
(***************************************************************************)
(* A model of src/base/proc_maps_iterator.cc (gperftools): the bounded     *)
(* line reader ForEachLine, the /proc/self/maps line parser                *)
(* ParseProcMapsLine with its helpers, the Linux enumerator DoIterateLinux, *)
(* the text renderer FormatLine, and the walkers over dl_iterate_phdr,     *)
(* /proc/self/map (DoIterateSolaris) and the Mach-O load commands          *)
(* (DoIterateOSX).                                                         *)
(*                                                                         *)
(* Bytes are one-character strings, C strings are sequences of bytes; a    *)
(* pointer into a string is a 1-based index into the sequence and the      *)
(* byte one past its end is the terminating NUL.  Pointers into the line   *)
(* buffer buf are 0-based offsets from buf, as in the C code.              *)
(* The model is of a build without debug assertions (DCHECK_GE compiled    *)
(* out).                                                                   *)
(***************************************************************************)
EXTENDS Integers, Sequences, FiniteSets, TLC

VARIABLES
  \* ---- ForEachLine / DoIterateLinux ----
  stream,     \* the bytes the opened file will yield, in order
  pc,         \* position in ForEachLine
  fd,         \* "none" before open, "interrupted", "open", "closed", "failed"
  pos,        \* number of bytes of stream already returned by read()
  buf,        \* char buf[kBufSize]
  sbuf,       \* char* sbuf (offset from buf)
  ebuf,       \* char* ebuf (offset from buf)
  eof,        \* bool eof
  nread,      \* int nread while read() is being retried: -1 after EINTR, else 0
  ret,        \* return value of ForEachLine ("none" until it returns)
  lines,      \* history: the lines handed to body(), in order
  records,    \* history: the ProcMappings DoIterateLinux handed to its callback
  stopped,    \* history: body() returned false
  closes,     \* history: number of close(fd) calls
  \* ---- ParseProcMapsLine / FormatLine on one line ----
  inp,        \* the fields the input line was assembled from
  text,       \* the line given to ParseProcMapsLine
  parsed,     \* its result
  rendered,   \* FormatLine's output for the parsed record
  reparsed,   \* ParseProcMapsLine on the rendered line
  ppc,        \* position in the parse / render / re-parse sequence
  \* ---- FormatLine on a record from any walker ----
  mapping,    \* the ProcMapping handed to FormatLine
  out,        \* the rendered line
  fpc,        \* position
  \* ---- the dl_iterate_phdr callback of DoForEachProcMapping ----
  dl_addr,    \* info->dlpi_addr
  dl_name,    \* info->dlpi_name
  dl_phnum,   \* info->dlpi_phnum
  dl_i,       \* the loop index i
  dl_phdr,    \* the program header last examined
  dl_mapping, \* the ProcMapping last handed to body
  dl_calls,   \* history: number of calls of body
  dl_pc,      \* position: "loop", "done", "abort" (CHECK_EQ failed)
  \* ---- DoIterateSolaris ----
  sol_maps,     \* the prmap_t records /proc/self/map will yield
  sol_fd,       \* "none" before open, "open", "failed" (fd < 0), "closed"
  sol_pos,      \* number of records already read
  sol_mapping,  \* the ProcMapping last handed to body
  sol_calls,    \* history: number of calls of body
  sol_badreads, \* history: number of read() calls on a negative fd
  sol_ret,      \* the return value
  sol_pc,       \* position: "open", "loop", "break", "done", "abort"
  \* ---- DoIterateOSX ----
  osx_images,    \* the loaded images: index i is osx_images[i + 1]
  osx_image,     \* int current_image
  osx_cmd,       \* int current_load_cmd
  osx_mapping,   \* the ProcMapping last handed to body
  osx_delivered, \* history: <<image, load command>> of each call of body
  osx_ret,       \* the return value
  osx_pc         \* position: "start", "outer", "inner", "done"

vars == <<stream, pc, fd, pos, buf, sbuf, ebuf, eof, nread, ret, lines, records,
          stopped, closes, inp, text, parsed, rendered, reparsed, ppc,
          mapping, out, fpc,
          dl_addr, dl_name, dl_phnum, dl_i, dl_phdr, dl_mapping, dl_calls, dl_pc,
          sol_maps, sol_fd, sol_pos, sol_mapping, sol_calls, sol_badreads,
          sol_ret, sol_pc,
          osx_images, osx_image, osx_cmd, osx_mapping, osx_delivered, osx_ret,
          osx_pc>>

readerVars == <<stream, pc, fd, pos, buf, sbuf, ebuf, eof, nread, ret, lines,
                records, stopped, closes>>
parseVars == <<inp, text, parsed, rendered, reparsed, ppc>>
formatVars == <<mapping, out, fpc>>
phdrVars == <<dl_addr, dl_name, dl_phnum, dl_i, dl_phdr, dl_mapping, dl_calls, dl_pc>>
solVars == <<sol_maps, sol_fd, sol_pos, sol_mapping, sol_calls, sol_badreads,
             sol_ret, sol_pc>>
osxVars == <<osx_images, osx_image, osx_cmd, osx_mapping, osx_delivered, osx_ret,
             osx_pc>>
walkerVars == <<phdrVars, solVars, osxVars>>

-----------------------------------------------------------------------------
(* Bytes and C-library functions                                           *)

\* The terminating byte '\0' of a C string.
NUL == "NUL"

\* A null pointer (string indices start at 1).
nullptr == 0

\* *(text + p - 1): the byte at index p of the C string text; every index
\* past the end reads as the terminator.
At(s, p) == IF p >= 1 /\ p <= Len(s) THEN s[p] ELSE NUL

\* isspace() in the "C" locale (the vertical tab has no TLA+ string escape
\* and occurs in no input of the model).
isspace(c) == c \in {" ", "\t", "\n", "\r", "\f"}

\* The value of a digit character, 99 for any other byte.
DigitVal(c) ==
  CASE c = "0" -> 0 [] c = "1" -> 1 [] c = "2" -> 2 [] c = "3" -> 3
    [] c = "4" -> 4 [] c = "5" -> 5 [] c = "6" -> 6 [] c = "7" -> 7
    [] c = "8" -> 8 [] c = "9" -> 9
    [] c \in {"a", "A"} -> 10 [] c \in {"b", "B"} -> 11
    [] c \in {"c", "C"} -> 12 [] c \in {"d", "D"} -> 13
    [] c \in {"e", "E"} -> 14 [] c \in {"f", "F"} -> 15
    [] OTHER -> 99

IsDigit(c, base) == DigitVal(c) < base

\* strchr(text + p - 1, c) on the NUL-terminated string s: the first index
\* >= p holding c before the terminator, or nullptr.
RECURSIVE strchr(_, _, _)
strchr(s, p, c) ==
  IF At(s, p) = NUL THEN nullptr
  ELSE IF s[p] = c THEN p
  ELSE strchr(s, p + 1, c)

\* strlen(s): the number of bytes before the first NUL.
RECURSIVE strlenFrom(_, _)
strlenFrom(s, p) == IF At(s, p) = NUL THEN 0 ELSE 1 + strlenFrom(s, p + 1)

\* The C string starting at index p of s, as a sequence without its NUL.
CStr(s, p) == SubSeq(s, p, p + strlenFrom(s, p) - 1)

RECURSIVE SkipSpaces(_, _)
SkipSpaces(s, p) == IF isspace(At(s, p)) THEN SkipSpaces(s, p + 1) ELSE p

RECURSIVE DigitsEnd(_, _, _)
DigitsEnd(s, p, base) ==
  IF IsDigit(At(s, p), base) THEN DigitsEnd(s, p + 1, base) ELSE p

RECURSIVE DigitsVal(_, _, _, _, _)
DigitsVal(s, p, q, base, acc) ==
  IF p >= q THEN acc
  ELSE DigitsVal(s, p + 1, q, base, acc * base + DigitVal(s[p]))

\* strtoull(text + nptr - 1, &endptr, base): leading white space, an
\* optional sign, for base 16 an optional 0x/0X prefix, then the longest run
\* of digits.  With no digits nothing is converted and endptr is nptr.
\* A negated value stands for its two's complement in 64 bits; the inputs
\* of the model are short enough that no value exceeds 64 bits.
\* Where the digits start: after an optional sign at t and, for base 16, an
\* optional 0x / 0X that a hexadecimal digit follows.
DigitsStart(s, sp, base) ==
  IF /\ base = 16
     /\ At(s, sp) = "0"
     /\ At(s, sp + 1) \in {"x", "X"}
     /\ IsDigit(At(s, sp + 2), 16)
  THEN sp + 2 ELSE sp

AfterSign(s, sp) == IF At(s, sp) \in {"+", "-"} THEN sp + 1 ELSE sp

\* The conversion once the white space is skipped (sp) and the first digit
\* is located (d).
ConvertDigits(s, nptr, sp, d, base) ==
  IF DigitsEnd(s, d, base) = d THEN [val |-> 0, endptr |-> nptr]
  ELSE [val    |-> IF At(s, sp) = "-"
                   THEN 0 - DigitsVal(s, d, DigitsEnd(s, d, base), base, 0)
                   ELSE DigitsVal(s, d, DigitsEnd(s, d, base), base, 0),
        endptr |-> DigitsEnd(s, d, base)]

strtoullFrom(s, nptr, sp, base) ==
  ConvertDigits(s, nptr, sp, DigitsStart(s, AfterSign(s, sp), base), base)

strtoull(s, nptr, base) == strtoullFrom(s, nptr, SkipSpaces(s, nptr), base)

-----------------------------------------------------------------------------
(* The parser's helpers                                                    *)

\* Finds c in the string at p and writes '\0' over it.
ExtractUntilChar(s, p, c) ==
  LET found == strchr(s, p, c)
  IN  IF found = nullptr
      THEN [ok |-> FALSE, endptr |-> nullptr, text |-> s]
      ELSE [ok |-> TRUE, endptr |-> found, text |-> [s EXCEPT ![found] = NUL]]

\* SkipWhileWhitespace with the loop left out: the pointer stays on the
\* terminator that was found.
SkipWhileWhitespace_NoLoop(s, p, c) == p

\* Advances p while it and the byte after it are white space.
RECURSIVE SkipWhileWhitespace(_, _, _)
SkipWhileWhitespace(s, p, c) ==
  IF isspace(c) /\ isspace(At(s, p)) /\ isspace(At(s, p + 1))
  THEN SkipWhileWhitespace(s, p + 1, c)
  ELSE p

\* StringToIntegerUntilChar after ExtractUntilChar returned ex: the text is
\* converted, the terminator is put back, and the conversion must have
\* stopped at the terminator.
ConvertExtracted(ex, s, p, base, c) ==
  IF ~ex.ok
  THEN [result |-> 0, endptr |-> nullptr, text |-> s]
  ELSE IF ex.endptr # strtoull(ex.text, p, base).endptr
  THEN [result |-> 0, endptr |-> nullptr,
        text |-> [ex.text EXCEPT ![ex.endptr] = c]]
  ELSE [result |-> strtoull(ex.text, p, base).val,
        endptr |-> SkipWhileWhitespace([ex.text EXCEPT ![ex.endptr] = c],
                                       ex.endptr, c),
        text   |-> [ex.text EXCEPT ![ex.endptr] = c]]

StringToIntegerUntilChar(s, p, base, c) ==
  ConvertExtracted(ExtractUntilChar(s, p, c), s, p, base, c)

\* strncpy(out, text, out_len); out[out_len-1] = '\0': out as a C string.
Strncpy(src, out_len) ==
  IF Len(src) < out_len THEN src ELSE SubSeq(src, 1, out_len - 1)

\* CopyStringUntilChar after ExtractUntilChar returned ex.
CopyExtracted(ex, s, p, out_len, c) ==
  IF ~ex.ok
  THEN [endptr |-> nullptr, out |-> <<>>, text |-> s]
  ELSE [endptr |-> SkipWhileWhitespace([ex.text EXCEPT ![ex.endptr] = c],
                                       ex.endptr, c),
        out    |-> Strncpy(CStr(ex.text, p), out_len),
        text   |-> [ex.text EXCEPT ![ex.endptr] = c]]

CopyStringUntilChar(s, p, out_len, c) ==
  CopyExtracted(ExtractUntilChar(s, p, c), s, p, out_len, c)

\* StringToIntegerUntilCharWithCheck after StringToIntegerUntilChar returned
\* r: fails on a null *endptr or on the end of the string, else steps over
\* the terminator.
CheckEndptr(r) ==
  IF r.endptr = nullptr \/ At(r.text, r.endptr) = NUL
  THEN [ok |-> FALSE, out |-> r.result, endptr |-> r.endptr, text |-> r.text]
  ELSE [ok |-> TRUE, out |-> r.result, endptr |-> r.endptr + 1, text |-> r.text]

StringToIntegerUntilCharWithCheck(s, base, c, endptr) ==
  CheckEndptr(StringToIntegerUntilChar(s, endptr, base, c))

\* The result of a failed parse: the outputs are not meaningful.
ParseFail == [ok |-> FALSE]

\* The locals of ParseProcMapsLine on entry; a field holds 0 until the line
\* assigns it.
ParseEntry(s) ==
  [ok |-> At(s, 1) # NUL, text |-> s, endptr |-> 1, start |-> 0, end |-> 0,
   flags |-> <<>>, offset |-> 0, dummy |-> 0, inode |-> 0]

\* One 'if (!StringToIntegerUntilCharWithCheck(...)) return false;' of
\* ParseProcMapsLine, r being the call's result.
StoreField(st, field, r) ==
  IF ~r.ok THEN [st EXCEPT !.ok = FALSE]
  ELSE [st EXCEPT ![field] = r.out, !.endptr = r.endptr, !.text = r.text]

ParseField(st, field, base, c) ==
  IF ~st.ok THEN st
  ELSE StoreField(st, field,
                  StringToIntegerUntilCharWithCheck(st.text, base, c, st.endptr))

\* The permission token of ParseProcMapsLine, r being the result of
\* CopyStringUntilChar.
StoreFlags(st, r) ==
  IF r.endptr = nullptr \/ At(r.text, r.endptr) = NUL
  THEN [st EXCEPT !.ok = FALSE]
  ELSE [st EXCEPT !.flags = r.out, !.endptr = r.endptr + 1, !.text = r.text]

ParseFlags(st) ==
  IF ~st.ok THEN st
  ELSE StoreFlags(st, CopyStringUntilChar(st.text, st.endptr, 5, " "))

\* The outputs of ParseProcMapsLine when every field was read.
ParseResult(st) ==
  IF ~st.ok THEN ParseFail
  ELSE [ok |-> TRUE, start |-> st.start, end |-> st.end, flags |-> st.flags,
        offset |-> st.offset, inode |-> st.inode,
        filename_offset |-> st.endptr - 1, text |-> st.text]

ParseProcMapsLine(s) ==
  ParseResult(
    ParseField(
      ParseField(
        ParseField(
          ParseField(
            ParseFlags(
              ParseField(
                ParseField(ParseEntry(s), "start", 16, "-"),
                "end", 16, " ")),
            "offset", 16, " "),
          "dummy", 16, ":"),
        "dummy", 16, " "),
      "inode", 10, " "))

-----------------------------------------------------------------------------
(* FormatLine                                                              *)

\* A const char* argument: the null pointer, or a pointer to a C string.
NullPtr == [null |-> TRUE, str |-> <<>>]
Ptr(s) == [null |-> FALSE, str |-> s]

HexDigits == <<"0", "1", "2", "3", "4", "5", "6", "7",
               "8", "9", "a", "b", "c", "d", "e", "f">>

\* The digits of n >= 0 in the given base, most significant first.
RECURSIVE ToBase(_, _)
ToBase(n, base) ==
  IF n < base THEN <<HexDigits[n + 1]>>
  ELSE ToBase(n \div base, base) \o <<HexDigits[(n % base) + 1]>>

RECURSIVE PadZero(_, _)
PadZero(s, width) == IF Len(s) >= width THEN s ELSE PadZero(<<"0">> \o s, width)

\* printf conversions %08x / %02x and %u.
FmtHex(n, width) == PadZero(ToBase(n, 16), width)
FmtDec(n) == ToBase(n, 10)

\* flags[i] for a non-null flags (0-based, as in the C code).
FlagAt(flags, i) == At(flags.str, i + 1)

\* The indices of flags that FormatLine reads: each test of the four
\* conditional expressions is evaluated only if those left of it were true.
FlagReads(flags) ==
  IF flags.null THEN {}
  ELSE {0}
         \cup (IF FlagAt(flags, 0) # NUL THEN {1} ELSE {})
         \cup (IF FlagAt(flags, 0) # NUL /\ FlagAt(flags, 1) # NUL THEN {2} ELSE {})
         \cup (IF /\ FlagAt(flags, 0) # NUL /\ FlagAt(flags, 1) # NUL
                  /\ FlagAt(flags, 2) # NUL
               THEN {3} ELSE {})

\* FormatLine's permission characters with 'w' and 'x' looked for in
\* flags[0] instead of their own positions.
FormatPerms_FirstChar(flags) ==
  <<IF ~flags.null /\ FlagAt(flags, 0) = "r" THEN "r" ELSE "-",
    IF ~flags.null /\ FlagAt(flags, 0) = "w" THEN "w" ELSE "-",
    IF ~flags.null /\ FlagAt(flags, 0) = "x" THEN "x" ELSE "-",
    "p">>

\* The four permission characters FormatLine prints.
FormatPerms(flags) ==
  LET r == IF ~flags.null /\ FlagAt(flags, 0) = "r" THEN "r" ELSE "-"
      w == IF ~flags.null /\ FlagAt(flags, 0) # NUL /\ FlagAt(flags, 1) = "w"
           THEN "w" ELSE "-"
      x == IF /\ ~flags.null /\ FlagAt(flags, 0) # NUL /\ FlagAt(flags, 1) # NUL
              /\ FlagAt(flags, 2) = "x"
           THEN "x" ELSE "-"
      p == IF /\ ~flags.null /\ FlagAt(flags, 0) # NUL /\ FlagAt(flags, 1) # NUL
              /\ FlagAt(flags, 2) # NUL /\ FlagAt(flags, 3) # "p"
           THEN "-" ELSE "p"
  IN  <<r, w, x, p>>

\* The bytes FormatLine appends to the writer.
FormatLine(start, end, flags, offset, inode, filename, dev) ==
  FmtHex(start, 8) \o <<"-">> \o FmtHex(end, 8) \o <<" ">>
    \o FormatPerms(flags) \o <<" ">>
    \o FmtHex(offset, 8) \o <<" ">>
    \o FmtHex(dev \div 256, 2) \o <<":">> \o FmtHex(dev % 256, 2) \o <<" ">>
    \o FmtDec(inode) \o <<" ">>
    \o filename \o <<"\n">>

-----------------------------------------------------------------------------
(* One line through ParseProcMapsLine, FormatLine and back                  *)

\* The field texts the input lines are assembled from.
StartFields == { <<"4", "0", "0", "0", "0", "0">>, <<"1", "f">> }
EndFields == { <<"4", "0", "1", "0", "0", "0">>, <<"2", "0">> }
PermFields == { <<"r", "-", "x", "p">>, <<"r", "w", "-", "s">>, <<"-", "-", "-", "p">> }
OffsetFields == { <<"0", "0", "0", "0", "0", "0", "0", "0">>, <<"1", "0", "0", "0">> }
MajorFields == { <<"0", "8">> }
MinorFields == { <<"0", "1">> }
InodeFields == { <<"1", "2", "3", "4", "5">>, <<"0">> }
\* The white space between the inode and the filename.
Separators == { <<" ">>, <<" ", " ", " ">>, <<" ", "\t">>, <<"\t">>, <<"\t", " ">> }
Filenames == { <<"/", "b", "i", "n", "/", "t", "r", "u", "e">>, <<"/", "a", " ", "b">> }
\* Texts that are no number: absent, not a digit, a digit then garbage, and
\* (for the inode) a hexadecimal digit that is no decimal digit.
BadFields == { <<>>, <<"g">>, <<"1", "g">>, <<"a">> }

NumericFields == {"start", "end", "offset", "major", "minor", "inode"}
FieldBase(f) == IF f = "inode" THEN 10 ELSE 16

\* 'start-end perms offset major:minor inode', without what follows the inode.
LineHead(i) ==
  i.start \o <<"-">> \o i.end \o <<" ">> \o i.perms \o <<" ">> \o i.offset
    \o <<" ">> \o i.major \o <<":">> \o i.minor \o <<" ">> \o i.inode

FullLine(i) == LineHead(i) \o i.sep \o i.filename

WellFormedInputs ==
  [start : StartFields, end : EndFields, perms : PermFields,
   offset : OffsetFields, major : MajorFields, minor : MinorFields,
   inode : InodeFields, sep : Separators, filename : Filenames]

\* A well-formed input with one numeric field replaced by a bad text.
DefectiveInputs ==
  { [i EXCEPT ![f] = b] : i \in WellFormedInputs, f \in NumericFields, b \in BadFields }

IdleParse ==
  /\ inp = [start |-> <<>>]
  /\ text = <<>>
  /\ parsed = ParseFail
  /\ rendered = [dev |-> 0, line |-> <<>>]
  /\ reparsed = ParseFail
  /\ ppc = "idle"

IdleFormat ==
  /\ mapping = [flags |-> NullPtr]
  /\ out = <<>>
  /\ fpc = "idle"

IdleReader ==
  /\ stream = <<>>
  /\ pc = "idle"
  /\ fd = "none"
  /\ pos = 0
  /\ buf = <<>>
  /\ sbuf = 0
  /\ ebuf = 0
  /\ eof = FALSE
  /\ nread = 0
  /\ ret = "none"
  /\ lines = <<>>
  /\ records = <<>>
  /\ stopped = FALSE
  /\ closes = 0

IdlePhdr ==
  /\ dl_addr = 0
  /\ dl_name = NullPtr
  /\ dl_phnum = 0
  /\ dl_i = 0
  /\ dl_phdr = [p_type |-> "none"]
  /\ dl_mapping = [flags |-> NullPtr]
  /\ dl_calls = 0
  /\ dl_pc = "idle"

IdleSolaris ==
  /\ sol_maps = <<>>
  /\ sol_fd = "none"
  /\ sol_pos = 0
  /\ sol_mapping = [flags |-> NullPtr]
  /\ sol_calls = 0
  /\ sol_badreads = 0
  /\ sol_ret = FALSE
  /\ sol_pc = "idle"

IdleOSX ==
  /\ osx_images = <<>>
  /\ osx_image = 0
  /\ osx_cmd = 0
  /\ osx_mapping = [flags |-> NullPtr]
  /\ osx_delivered = <<>>
  /\ osx_ret = FALSE
  /\ osx_pc = "idle"

IdleWalkers == IdlePhdr /\ IdleSolaris /\ IdleOSX

\* The line is a whole input line, or a well-formed one cut off anywhere.
InitParse ==
  /\ \E i \in WellFormedInputs \cup DefectiveInputs :
       /\ inp = i
       /\ \E cut \in 0 .. Len(FullLine(i)) :
            /\ (cut < Len(FullLine(i)) => i \in WellFormedInputs)
            /\ text = SubSeq(FullLine(i), 1, cut)
  /\ parsed = ParseFail
  /\ rendered = [dev |-> 0, line |-> <<>>]
  /\ reparsed = ParseFail
  /\ ppc = "start"
  /\ IdleReader
  /\ IdleFormat
  /\ IdleWalkers

\* The value of a text of digits, most significant first.
RECURSIVE NumberOf(_, _)
NumberOf(digits, base) ==
  IF digits = <<>> THEN 0
  ELSE NumberOf(SubSeq(digits, 1, Len(digits) - 1), base) * base
         + DigitVal(digits[Len(digits)])

\* The device number whose major and minor the line shows.
DevOf(i) == NumberOf(i.major, 16) * 256 + NumberOf(i.minor, 16)

\* The lambda of DoIterateLinux up to its call of body: the line is parsed.
DoParse ==
  /\ ppc = "start"
  /\ parsed' = ParseProcMapsLine(text)
  /\ ppc' = "parsed"
  /\ UNCHANGED <<inp, text, rendered, reparsed>>
  /\ UNCHANGED readerVars
  /\ UNCHANGED formatVars
  /\ UNCHANGED walkerVars

\* SaveProcSelfMaps' callback: the record is rendered, with device 0 as
\* SaveProcSelfMaps does or with the device the line showed.
DoFormat ==
  /\ ppc = "parsed"
  /\ parsed.ok
  /\ \E dev \in {0, DevOf(inp)} :
       rendered' = [dev  |-> dev,
                    line |-> FormatLine(parsed.start, parsed.end,
                                        Ptr(parsed.flags), parsed.offset,
                                        parsed.inode,
                                        CStr(parsed.text, parsed.filename_offset + 1),
                                        dev)]
  /\ ppc' = "formatted"
  /\ UNCHANGED <<inp, text, parsed, reparsed>>
  /\ UNCHANGED readerVars
  /\ UNCHANGED formatVars
  /\ UNCHANGED walkerVars

\* The rendered line, less its newline, is parsed again.
DoReparse ==
  /\ ppc = "formatted"
  /\ reparsed' = ParseProcMapsLine(SubSeq(rendered.line, 1, Len(rendered.line) - 1))
  /\ ppc' = "reparsed"
  /\ UNCHANGED <<inp, text, parsed, rendered>>
  /\ UNCHANGED readerVars
  /\ UNCHANGED formatVars
  /\ UNCHANGED walkerVars

NextParse == DoParse \/ DoFormat \/ DoReparse

SpecParse == InitParse /\ [][NextParse]_vars

-----------------------------------------------------------------------------
(* FormatLine on the records the walkers produce                            *)

\* The longest permission token a walker hands out (flags_tmp holds 4
\* characters and the terminator).
MaxFlagsLen == 4

PermChars == {"r", "w", "x", "-", "p", "s"}

\* Every token of at most MaxFlagsLen permission characters, and the null
\* pointer (a zeroed ProcMapping whose flags were never set).
FlagTokens ==
  {NullPtr} \cup
  { Ptr(t) : t \in UNION { [1 .. n -> PermChars] : n \in 0 .. MaxFlagsLen } }

InitFormat ==
  /\ \E f \in FlagTokens, ino \in {0, 12345},
        name \in { <<>>, <<"/", "b", "i", "n", "/", "t", "r", "u", "e">> } :
       mapping = [start |-> 4194304, end |-> 4198400, flags |-> f,
                  offset |-> 0, inode |-> ino, filename |-> name]
  /\ out = <<>>
  /\ fpc = "start"
  /\ IdleReader
  /\ IdleParse
  /\ IdleWalkers

\* The callback of SaveProcSelfMaps.
SaveProcSelfMaps ==
  /\ fpc = "start"
  /\ out' = FormatLine(mapping.start, mapping.end, mapping.flags,
                       mapping.offset, mapping.inode, mapping.filename, 0)
  /\ fpc' = "done"
  /\ UNCHANGED mapping
  /\ UNCHANGED readerVars
  /\ UNCHANGED parseVars
  /\ UNCHANGED walkerVars

NextFormat == SaveProcSelfMaps

SpecFormat == InitFormat /\ [][NextFormat]_vars

-----------------------------------------------------------------------------
(* Claims about ParseProcMapsLine and FormatLine                            *)

\* The input is a whole line in the canonical format.
WellFormedLine == inp \in WellFormedInputs /\ text = FullLine(inp)

FieldAbsent == \E f \in NumericFields : inp[f] = <<>>

FieldNonNumeric ==
  \E f \in NumericFields :
    \E k \in 1 .. Len(inp[f]) : ~IsDigit(inp[f][k], FieldBase(f))

\* The line ends before the terminator of one of its numeric fields.
FieldCutOff == inp \in WellFormedInputs /\ Len(text) <= Len(LineHead(inp))

\* C7: every line in which a numeric field (start, end, offset, major,
\* minor, inode) is absent, cut off before its terminator, or holds a
\* character that is no digit of the field's base makes ParseProcMapsLine
\* return false.
CE_C7 ==
  (ppc # "start" /\ (FieldAbsent \/ FieldNonNumeric \/ FieldCutOff))
    => ~parsed.ok

\* ParseProcMapsLine succeeded with the values the line shows.
ParsedAsWritten ==
  /\ parsed.ok
  /\ parsed.start = NumberOf(inp.start, 16)
  /\ parsed.end = NumberOf(inp.end, 16)
  /\ parsed.offset = NumberOf(inp.offset, 16)
  /\ parsed.inode = NumberOf(inp.inode, 10)
  /\ parsed.flags = inp.perms
  /\ parsed.filename_offset = Len(LineHead(inp)) + Len(inp.sep)
  /\ CStr(parsed.text, parsed.filename_offset + 1) = inp.filename
  /\ parsed.text = text

\* C8 as stated: on every line 'start-end perms offset major:minor inode'
\* followed by one or more white-space characters and a filename,
\* ParseProcMapsLine returns true with the numeric values of the fields, the
\* 4-character permission token, and filename_offset at the first character
\* of the filename.
CE_C8 == (ppc # "start" /\ WellFormedLine) => ParsedAsWritten

\* C8 as amended: the same, for the lines in which the first character after
\* the inode is a space (any white space may follow it).
Thm_C8 ==
  (ppc # "start" /\ WellFormedLine /\ inp.sep[1] = " ") => ParsedAsWritten

\* '400000-401000 r-xp 00000000 08:01 12345   /bin/true' has been parsed.
Witness_C8 ==
  /\ ppc = "parsed"
  /\ text = <<"4", "0", "0", "0", "0", "0", "-", "4", "0", "1", "0", "0", "0", " ",
              "r", "-", "x", "p", " ", "0", "0", "0", "0", "0", "0", "0", "0", " ",
              "0", "8", ":", "0", "1", " ", "1", "2", "3", "4", "5", " ", " ", " ",
              "/", "b", "i", "n", "/", "t", "r", "u", "e">>
  /\ parsed.ok
  /\ parsed.start = 4194304
  /\ parsed.end = 4198400
  /\ parsed.flags = <<"r", "-", "x", "p">>
  /\ parsed.offset = 0
  /\ parsed.inode = 12345
  /\ parsed.filename_offset = 42

\* C9: a valid line, parsed and then rendered with the device the line
\* shows, gives a line with the same start, end, offset and inode, the same
\* 4-character permission token and the same filename.
CE_C9 ==
  (/\ ppc = "reparsed"
   /\ WellFormedLine
   /\ inp.sep[1] = " "
   /\ rendered.dev = DevOf(inp))
    => /\ reparsed.ok
       /\ reparsed.start = NumberOf(inp.start, 16)
       /\ reparsed.end = NumberOf(inp.end, 16)
       /\ reparsed.offset = NumberOf(inp.offset, 16)
       /\ reparsed.inode = NumberOf(inp.inode, 10)
       /\ reparsed.flags = inp.perms
       /\ CStr(reparsed.text, reparsed.filename_offset + 1) = inp.filename

\* The permission characters of a rendered line: they follow the two
\* 8-digit addresses and their separators.
RenderedPerms == SubSeq(out, 19, 22)

\* The token does not mark the mapping shared: null, shorter than four
\* characters, or four characters ending in 'p'.
NotMarkedShared(f) ==
  f.null \/ Len(f.str) < 4 \/ (Len(f.str) = 4 /\ f.str[4] = "p")

MarkedShared(f) == ~f.null /\ Len(f.str) = 4 /\ f.str[4] = "s"

\* C10: FormatLine renders the fourth permission character as 'p' for every
\* token that does not mark the mapping shared, and as 's' for a token whose
\* fourth character is 's'.
CE_C10 ==
  fpc = "done" =>
    /\ (NotMarkedShared(mapping.flags) => RenderedPerms[4] = "p")
    /\ (MarkedShared(mapping.flags) => RenderedPerms[4] = "s")

\* C14: every record handed to the callback has start <= end; for the text
\* source, on every line that ParseProcMapsLine accepts.
CE_C14 ==
  (ppc # "start" /\ parsed.ok) => parsed.start <= parsed.end

\* The line is in the canonical format without the filename part: it ends
\* right after the inode, or after one space that follows the inode.
FilenameOmitted ==
  /\ inp \in WellFormedInputs
  /\ (text = LineHead(inp) \/ text = LineHead(inp) \o <<" ">>)

\* C22: a canonical line without filename part, whether it ends with one
\* space after the inode or right after the inode's last digit, makes
\* ParseProcMapsLine return true with filename_offset at the terminating NUL
\* (an empty filename).
CE_C22 ==
  (ppc # "start" /\ FilenameOmitted)
    => /\ parsed.ok
       /\ parsed.filename_offset = Len(text)
       /\ CStr(parsed.text, parsed.filename_offset + 1) = <<>>

\* C11: FormatLine renders 'r', 'w' and 'x' by position: the first
\* character is 'r' iff token[0] is 'r', the second 'w' iff the token has two
\* characters and token[1] is 'w', the third 'x' iff it has three and
\* token[2] is 'x', each '-' otherwise; and it reads no index past the
\* token's terminator (nothing at all of a null token).
Thm_C11 ==
  fpc = "done" =>
    /\ RenderedPerms[1] \in {"r", "-"}
    /\ RenderedPerms[2] \in {"w", "-"}
    /\ RenderedPerms[3] \in {"x", "-"}
    /\ RenderedPerms[1] = "r"
         <=> (~mapping.flags.null /\ Len(mapping.flags.str) >= 1
              /\ mapping.flags.str[1] = "r")
    /\ RenderedPerms[2] = "w"
         <=> (~mapping.flags.null /\ Len(mapping.flags.str) >= 2
              /\ mapping.flags.str[2] = "w")
    /\ RenderedPerms[3] = "x"
         <=> (~mapping.flags.null /\ Len(mapping.flags.str) >= 3
              /\ mapping.flags.str[3] = "x")
    /\ \A i \in FlagReads(mapping.flags) : i <= Len(mapping.flags.str)

\* The token "rw-p" was rendered as rw-p.
Witness_C11 ==
  /\ fpc = "done"
  /\ mapping.flags = Ptr(<<"r", "w", "-", "p">>)
  /\ RenderedPerms = <<"r", "w", "-", "p">>
  /\ FlagReads(mapping.flags) = {0, 1, 2, 3}

-----------------------------------------------------------------------------
(* ForEachLine and DoIterateLinux                                           *)

\* sizeof(buf).  The program's value is PATH_MAX + 1024; the model scales it
\* down to a size that the longer mapping line of the inputs below, with
\* its newline, fills up to buf_end.
kBufSize == 20

\* char* const buf_end = buf + sizeof(buf) - 1
buf_end == kBufSize - 1

\* The most lines a source of the model holds.
MaxLines == 3

\* The lines the sources are assembled from: one that is no mapping line,
\* two mapping lines, and one longer than the buffer.
Garbage == <<"g">>
Valid1 == <<"1", "-", "2", " ", "r", "-", "x", "p", " ", "0", " ",
            "0", ":", "0", " ", "7", " ">>
Valid2 == <<"3", "-", "4", " ", "r", "w", "-", "p", " ", "0", " ",
            "0", ":", "0", " ", "1", "8", " ">>
LongLine == [i \in 1 .. kBufSize + 2 |-> "x"]
SourceLines == {Garbage, Valid1, Valid2, LongLine}

\* The lines of ls, each followed by a newline.
RECURSIVE JoinLines(_)
JoinLines(ls) ==
  IF ls = <<>> THEN <<>> ELSE Head(ls) \o <<"\n">> \o JoinLines(Tail(ls))

\* Every source of at most MaxLines lines; the last line may lack its newline.
Sources ==
  LET seqs == UNION { [1 .. n -> SourceLines] : n \in 0 .. MaxLines }
  IN  { JoinLines(ls) : ls \in seqs }
        \cup { SubSeq(JoinLines(ls), 1, Len(JoinLines(ls)) - 1) : ls \in seqs \ {<<>>} }

\* The content of buf before anything was stored in it.
Junk == "?"

NullOff == 0 - 1

\* memchr(buf + s, c, n): the offset of the first c in buf[s .. s+n-1].
RECURSIVE memchr(_, _, _, _)
memchr(b, s, c, n) ==
  IF n <= 0 THEN NullOff
  ELSE IF b[s] = c THEN s
  ELSE memchr(b, s + 1, c, n - 1)

\* memmove(buf, buf + s, n)
memmove(b, s, n) ==
  [i \in DOMAIN b |-> IF i < n THEN b[s + i] ELSE b[i]]

\* The bytes buf[s .. e-1] as a string.
BufString(b, s, e) == [i \in 1 .. (e - s) |-> b[s + i - 1]]

\* read() stores the next n bytes of the file at buf + e.
StoreRead(b, e, n) ==
  [i \in DOMAIN b |-> IF i >= e /\ i < e + n THEN stream[pos + (i - e) + 1] ELSE b[i]]

Init ==
  /\ stream \in Sources
  /\ pc = "open"
  /\ fd = "none"
  /\ pos = 0
  /\ buf = [i \in 0 .. kBufSize - 1 |-> Junk]
  /\ sbuf = 0
  /\ ebuf = 0
  /\ eof = FALSE
  /\ nread = 0
  /\ ret = FALSE
  /\ lines = <<>>
  /\ records = <<>>
  /\ stopped = FALSE
  /\ closes = 0
  /\ IdleParse
  /\ IdleFormat
  /\ IdleWalkers

\* open() fails with EINTR: fd is negative and NO_INTR calls open() again.
OpenIntr ==
  /\ pc = "open"
  /\ fd' = "interrupted"
  /\ UNCHANGED <<stream, pc, pos, buf, sbuf, ebuf, eof, nread, ret, lines,
                 records, stopped, closes>>
  /\ UNCHANGED parseVars
  /\ UNCHANGED formatVars
  /\ UNCHANGED walkerVars

\* open() succeeds.
Open ==
  /\ pc = "open"
  /\ fd' = "open"
  /\ sbuf' = 0
  /\ ebuf' = 0
  /\ eof' = FALSE
  /\ pc' = "loop"
  /\ UNCHANGED <<stream, pos, buf, ret, lines, records, stopped, closes>>
  /\ UNCHANGED nread
  /\ UNCHANGED parseVars
  /\ UNCHANGED formatVars
  /\ UNCHANGED walkerVars

\* open() fails: fd < 0, return false.
OpenFail ==
  /\ pc = "open"
  /\ fd' = "failed"
  /\ ret' = FALSE
  /\ pc' = "done"
  /\ UNCHANGED <<stream, pos, buf, sbuf, ebuf, eof, lines, records,
                 stopped, closes>>
  /\ UNCHANGED nread
  /\ UNCHANGED parseVars
  /\ UNCHANGED formatVars
  /\ UNCHANGED walkerVars

nextline == memchr(buf, sbuf, "\n", ebuf - sbuf)

count == ebuf - sbuf

\* The ProcMapping the lambda of DoIterateLinux fills from a parsed line.
MappingOf(r) ==
  [start    |-> r.start,
   end      |-> r.end,
   flags    |-> r.flags,
   offset   |-> r.offset,
   inode    |-> r.inode,
   filename |-> CStr(r.text, r.filename_offset + 1)]

\* The lambda DoIterateLinux passes to ForEachLine as body, called on a line:
\* whether it returns true, and the record it hands to the callback, if any.
CallBody(line) ==
  IF ~ParseProcMapsLine(line).ok
  THEN [go |-> FALSE, recs |-> <<>>]
  ELSE [go |-> TRUE, recs |-> <<MappingOf(ParseProcMapsLine(line))>>]

\* The lines body can be called on: sbuf is at the start of a line, so the
\* window up to a newline is a line of the source or, after a failed read,
\* the part of a line that was read.
DeliverableLines ==
  UNION { { SubSeq(l, 1, k) : k \in 0 .. Len(l) } : l \in SourceLines }

\* The results of the lambda on these lines.
BodyResults == [l \in DeliverableLines |-> CallBody(l)]

\* The line goes to body and the loop goes on after it whatever body
\* returned.
DeliverLine_IgnoreStop ==
  /\ pc = "loop"
  /\ nextline # NullOff
  /\ buf' = [buf EXCEPT ![nextline] = NUL]
  /\ lines' = Append(lines, BufString(buf, sbuf, nextline))
  /\ records' = records \o BodyResults[BufString(buf, sbuf, nextline)].recs
  /\ sbuf' = nextline + 1
  /\ stopped' = (stopped \/ ~BodyResults[BufString(buf, sbuf, nextline)].go)
  /\ UNCHANGED <<stream, pc, fd, pos, ebuf, eof, ret, closes>>
  /\ UNCHANGED nread
  /\ UNCHANGED parseVars
  /\ UNCHANGED formatVars
  /\ UNCHANGED walkerVars

\* A newline is in the window: it becomes '\0', the line goes to body, and
\* the loop goes on after the line or breaks.
DeliverLine ==
  /\ pc = "loop"
  /\ nextline # NullOff
  /\ LET line == BufString(buf, sbuf, nextline)
         res  == BodyResults[line]
     IN  /\ buf' = [buf EXCEPT ![nextline] = NUL]
         /\ lines' = Append(lines, line)
         /\ records' = records \o res.recs
         /\ IF res.go
            THEN /\ sbuf' = nextline + 1
                 /\ UNCHANGED <<pc, stopped>>
            ELSE /\ pc' = "break"
                 /\ stopped' = TRUE
                 /\ UNCHANGED sbuf
  /\ UNCHANGED <<stream, fd, pos, ebuf, eof, ret, closes>>
  /\ UNCHANGED nread
  /\ UNCHANGED parseVars
  /\ UNCHANGED formatVars
  /\ UNCHANGED walkerVars

\* At end of file with nothing left over: break.
EofBreak_DropTail ==
  /\ pc = "loop"
  /\ nextline = NullOff
  /\ eof
  /\ pc' = "break"
  /\ UNCHANGED <<stream, fd, pos, buf, sbuf, ebuf, eof, ret, lines,
                 records, stopped, closes>>
  /\ UNCHANGED nread
  /\ UNCHANGED parseVars
  /\ UNCHANGED formatVars
  /\ UNCHANGED walkerVars

EofBreak ==
  /\ pc = "loop"
  /\ nextline = NullOff
  /\ eof
  /\ count = 0
  /\ pc' = "break"
  /\ UNCHANGED <<stream, fd, pos, buf, sbuf, ebuf, eof, ret, lines,
                 records, stopped, closes>>
  /\ UNCHANGED nread
  /\ UNCHANGED parseVars
  /\ UNCHANGED formatVars
  /\ UNCHANGED walkerVars

\* The newline is written at ebuf but ebuf is not advanced.
AddNewline_NoAdvance ==
  /\ pc = "loop"
  /\ nextline = NullOff
  /\ eof
  /\ count # 0
  /\ buf' = [buf EXCEPT ![ebuf] = "\n"]
  /\ UNCHANGED <<stream, pc, fd, pos, sbuf, ebuf, eof, ret, lines, records,
                 stopped, closes>>
  /\ UNCHANGED nread
  /\ UNCHANGED parseVars
  /\ UNCHANGED formatVars
  /\ UNCHANGED walkerVars

\* At end of file with an unterminated rest: *ebuf++ = '\n'.
AddNewline ==
  /\ pc = "loop"
  /\ nextline = NullOff
  /\ eof
  /\ count # 0
  /\ buf' = [buf EXCEPT ![ebuf] = "\n"]
  /\ ebuf' = ebuf + 1
  /\ UNCHANGED <<stream, pc, fd, pos, sbuf, eof, ret, lines, records,
                 stopped, closes>>
  /\ UNCHANGED nread
  /\ UNCHANGED parseVars
  /\ UNCHANGED formatVars
  /\ UNCHANGED walkerVars

\* ebuf == buf_end: return false.
TooLong ==
  /\ pc = "loop"
  /\ nextline = NullOff
  /\ ~eof
  /\ ebuf = buf_end
  /\ ret' = FALSE
  /\ pc' = "done"
  /\ UNCHANGED <<stream, fd, pos, buf, sbuf, ebuf, eof, lines, records,
                 stopped, closes>>
  /\ UNCHANGED nread
  /\ UNCHANGED parseVars
  /\ UNCHANGED formatVars
  /\ UNCHANGED walkerVars

\* The compaction without the test for a full buffer before it.
Compact_NoFullCheck ==
  /\ pc = "loop"
  /\ nextline = NullOff
  /\ ~eof
  /\ buf' = memmove(buf, sbuf, count)
  /\ sbuf' = 0
  /\ ebuf' = count
  /\ nread' = 0
  /\ pc' = "read"
  /\ UNCHANGED <<stream, fd, pos, eof, ret, lines, records, stopped, closes>>
  /\ UNCHANGED parseVars
  /\ UNCHANGED formatVars
  /\ UNCHANGED walkerVars

\* The rest of the window moves to the start of buf: memmove, sbuf = buf,
\* ebuf = sbuf + count; read() is called next.
Compact ==
  /\ pc = "loop"
  /\ nextline = NullOff
  /\ ~eof
  /\ ebuf # buf_end
  /\ buf' = memmove(buf, sbuf, count)
  /\ sbuf' = 0
  /\ ebuf' = count
  /\ nread' = 0
  /\ pc' = "read"
  /\ UNCHANGED <<stream, fd, pos, eof, ret, lines, records, stopped, closes>>
  /\ UNCHANGED parseVars
  /\ UNCHANGED formatVars
  /\ UNCHANGED walkerVars

\* read() fails with EINTR and the call is not repeated: nread < 0 is taken
\* as 0, which sets eof.
ReadIntr_NoRetry ==
  /\ pc = "read"
  /\ eof' = TRUE
  /\ nread' = 0
  /\ pc' = "loop"
  /\ UNCHANGED <<stream, fd, pos, buf, sbuf, ebuf, ret, lines, records,
                 stopped, closes>>
  /\ UNCHANGED parseVars
  /\ UNCHANGED formatVars
  /\ UNCHANGED walkerVars

\* read() fails with EINTR: nread is -1 and NO_INTR calls read() again.
ReadIntr ==
  /\ pc = "read"
  /\ nread' = 0 - 1
  /\ UNCHANGED <<stream, pc, fd, pos, buf, sbuf, ebuf, eof, ret, lines,
                 records, stopped, closes>>
  /\ UNCHANGED parseVars
  /\ UNCHANGED formatVars
  /\ UNCHANGED walkerVars

\* read() returns n > 0 bytes, at most the buf_end - ebuf asked for and as
\* many as the file still holds: ebuf += nread.
ReadData ==
  /\ pc = "read"
  /\ \E n \in 1 .. (buf_end - ebuf) :
       /\ pos + n <= Len(stream)
       /\ buf' = StoreRead(buf, ebuf, n)
       /\ pos' = pos + n
       /\ ebuf' = ebuf + n
  /\ nread' = 0
  /\ pc' = "loop"
  /\ UNCHANGED <<stream, fd, sbuf, eof, ret, lines, records, stopped, closes>>
  /\ UNCHANGED parseVars
  /\ UNCHANGED formatVars
  /\ UNCHANGED walkerVars

\* read() returns 0: end of file.
ReadEof ==
  /\ pc = "read"
  /\ pos = Len(stream)
  /\ eof' = TRUE
  /\ nread' = 0
  /\ pc' = "loop"
  /\ UNCHANGED <<stream, fd, pos, buf, sbuf, ebuf, ret, lines, records,
                 stopped, closes>>
  /\ UNCHANGED parseVars
  /\ UNCHANGED formatVars
  /\ UNCHANGED walkerVars

\* read() fails with an error other than EINTR and ForEachLine returns false
\* at once.
ReadError_Propagate ==
  /\ pc = "read"
  /\ pos < Len(stream)
  /\ ret' = FALSE
  /\ nread' = 0
  /\ pc' = "done"
  /\ UNCHANGED <<stream, fd, pos, buf, sbuf, ebuf, eof, lines, records,
                 stopped, closes>>
  /\ UNCHANGED parseVars
  /\ UNCHANGED formatVars
  /\ UNCHANGED walkerVars

\* read() fails with an error other than EINTR: nread < 0 is taken as 0,
\* which sets eof.
ReadError ==
  /\ pc = "read"
  /\ pos < Len(stream)
  /\ eof' = TRUE
  /\ nread' = 0
  /\ pc' = "loop"
  /\ UNCHANGED <<stream, fd, pos, buf, sbuf, ebuf, ret, lines, records,
                 stopped, closes>>
  /\ UNCHANGED parseVars
  /\ UNCHANGED formatVars
  /\ UNCHANGED walkerVars

\* After the loop: close(fd); return true.
CloseReturn ==
  /\ pc = "break"
  /\ closes' = closes + 1
  /\ fd' = "closed"
  /\ ret' = TRUE
  /\ pc' = "done"
  /\ UNCHANGED <<stream, pos, buf, sbuf, ebuf, eof, lines, records, stopped>>
  /\ UNCHANGED nread
  /\ UNCHANGED parseVars
  /\ UNCHANGED formatVars
  /\ UNCHANGED walkerVars

Next ==
  \/ OpenIntr
  \/ Open
  \/ OpenFail
  \/ DeliverLine
  \/ EofBreak
  \/ AddNewline
  \/ TooLong
  \/ Compact
  \/ ReadIntr
  \/ ReadData
  \/ ReadEof
  \/ ReadError
  \/ CloseReturn

Spec == Init /\ [][Next]_vars

\* Every step of ForEachLine but the EINTR results of open() and read().
Progress ==
  \/ Open
  \/ OpenFail
  \/ DeliverLine
  \/ EofBreak
  \/ AddNewline
  \/ TooLong
  \/ Compact
  \/ ReadData
  \/ ReadEof
  \/ ReadError
  \/ CloseReturn

\* The calling thread keeps running, the callback returns, and open() and
\* read() do not return EINTR forever.
SpecFair == Init /\ [][Next]_vars /\ WF_vars(Progress)

-----------------------------------------------------------------------------
(* Claims about ForEachLine and DoIterateLinux                              *)

\* The index of the first newline of s at or after k, 0 if there is none.
RECURSIVE FirstNewline(_, _)
FirstNewline(s, k) ==
  IF k > Len(s) THEN 0
  ELSE IF s[k] = "\n" THEN k
  ELSE FirstNewline(s, k + 1)

\* s split at its newlines; a last line without newline counts, an empty
\* rest after the last newline does not.
RECURSIVE SplitLines(_)
SplitLines(s) ==
  IF s = <<>> THEN <<>>
  ELSE IF FirstNewline(s, 1) = 0 THEN <<s>>
  ELSE <<SubSeq(s, 1, FirstNewline(s, 1) - 1)>>
         \o SplitLines(SubSeq(s, FirstNewline(s, 1) + 1, Len(s)))

IsPrefix(a, b) == Len(a) <= Len(b) /\ a = SubSeq(b, 1, Len(a))

\* Every line of s, with its newline, leaves room in the buffer.
LinesFit(s) ==
  \A k \in 1 .. Len(SplitLines(s)) : Len(SplitLines(s)[k]) <= kBufSize - 2

\* s has a line longer than the buffer.
HasLongLine(s) ==
  \E k \in 1 .. Len(SplitLines(s)) : Len(SplitLines(s)[k]) >= kBufSize

\* The lines of ls before its first line longer than the buffer.
RECURSIVE LinesBeforeLong(_)
LinesBeforeLong(ls) ==
  IF ls = <<>> \/ Len(Head(ls)) >= kBufSize THEN <<>>
  ELSE <<Head(ls)>> \o LinesBeforeLong(Tail(ls))

\* The records of the lines of ls that ParseProcMapsLine accepts, in order.
RECURSIVE WellFormedRecords(_)
WellFormedRecords(ls) ==
  IF ls = <<>> THEN <<>>
  ELSE (IF ParseProcMapsLine(Head(ls)).ok
        THEN <<MappingOf(ParseProcMapsLine(Head(ls)))>> ELSE <<>>)
         \o WellFormedRecords(Tail(ls))

\* A read error ended the reading before the end of the file.
ReadFailed == eof /\ pos < Len(stream)

Returned == pc = "done"

Opened == fd \in {"open", "closed"}

\* C1: malformed lines are skipped: DoIterateLinux hands its callback one
\* record for each well-formed line of the source, in order, also for those
\* after a malformed line, and returns true.  (Stated for the calls that
\* read the source without error and return true.)
CE_C1 ==
  (Returned /\ Opened /\ ~ReadFailed /\ ret)
    => records = WellFormedRecords(SplitLines(stream))

\* C2: when every line is shorter than the buffer, a callback that never
\* asks to stop receives the source split at its newlines, however the reads
\* cut the source.
CE_C2 ==
  (Returned /\ Opened /\ ~stopped /\ ~ReadFailed /\ LinesFit(stream))
    => lines = SplitLines(stream)

\* C3: ForEachLine returns false only if the source could not be opened or
\* one of its lines fills the buffer: for an opened source whose every line
\* is shorter than the buffer it returns true.
CE_C3 == (Returned /\ ~ret) => (~Opened \/ ~LinesFit(stream))

\* C4: when open() succeeded, close(fd) has been called exactly once by the
\* time ForEachLine returns.
CE_C4 == (Returned /\ Opened) => closes = 1

\* C5: when the source has a line longer than the buffer (and the callback
\* never asks to stop), the call returns false and the callback has received
\* exactly the lines before that line.
CE_C5 ==
  (Returned /\ Opened /\ ~stopped /\ ~ReadFailed /\ HasLongLine(stream))
    => /\ ~ret
       /\ lines = LinesBeforeLong(SplitLines(stream))

\* C6: once end of file is met, the lines delivered are never more than the
\* lines of what was read, and when ForEachLine returns they are exactly
\* those: a last line without newline is delivered once, nothing is delivered
\* for an empty rest, and the call returns true.
Thm_C6 ==
  /\ eof => IsPrefix(lines, SplitLines(SubSeq(stream, 1, pos)))
  /\ (Returned /\ eof) =>
       /\ ret
       /\ lines = SplitLines(SubSeq(stream, 1, pos))

\* A source of two lines, the second without newline, was read to its end
\* and both lines were delivered.
Witness_C6 ==
  /\ Returned
  /\ ret
  /\ eof
  /\ pos = Len(stream)
  /\ stream = Valid1 \o <<"\n">> \o Valid2
  /\ lines = <<Valid1, Valid2>>

\* Every line of s is one that ParseProcMapsLine accepts.
AllWellFormed(s) ==
  \A k \in 1 .. Len(SplitLines(s)) : ParseProcMapsLine(SplitLines(s)[k]).ok

\* C17: for a source of n >= 0 well-formed lines that fits in one fill of
\* the buffer (at most buf_end bytes), DoIterateLinux calls the callback
\* exactly n times, the i-th call with the record of the i-th line, and
\* returns true; for the empty source it calls it zero times and returns
\* true.
CE_C17 ==
  (Returned /\ Opened /\ ~ReadFailed /\ AllWellFormed(stream)
     /\ Len(stream) <= buf_end)
    => /\ ret
       /\ Len(records) = Len(SplitLines(stream))
       /\ records = WellFormedRecords(SplitLines(stream))

\* C15: a read() error other than EINTR is taken as end of file: the step
\* sets eof exactly as a read() of 0 bytes does and moves nothing else;
\* after it no read is pending or issued, the delivered lines are lines of
\* what was read, and at return the unterminated rest has been delivered
\* once as the last line, the descriptor is closed and the result is true.
Thm_C15 ==
  /\ [][ReadError =>
          /\ eof' /\ pc' = "loop"
          /\ UNCHANGED <<stream, fd, pos, buf, sbuf, ebuf, lines, records, closes>>]_vars
  /\ [][eof => (eof' /\ pos' = pos)]_vars
  /\ [](ReadFailed =>
          /\ pc # "read"
          /\ IsPrefix(lines, SplitLines(SubSeq(stream, 1, pos))))
  /\ []((ReadFailed /\ Returned) =>
          /\ ret
          /\ closes = 1
          /\ fd = "closed"
          /\ lines = SplitLines(SubSeq(stream, 1, pos)))

\* read() failed when the second line was in the buffer without its newline;
\* both lines were delivered and the call returned true.
Witness_C15 ==
  /\ Returned
  /\ ReadFailed
  /\ ret
  /\ closes = 1
  /\ ~stopped
  /\ pos = Len(Valid1) + 1 + Len(Valid2)
  /\ lines = <<Valid1, Valid2>>

\* The bytes handed to body, each line with its newline, followed by the
\* bytes still in the window.
Accounted == JoinLines(lines) \o BufString(buf, sbuf, ebuf)

\* C16: an EINTR result of open() or read() changes nothing but the failed
\* call's result: the cursors, eof, the buffer, the file position and what
\* was delivered stay as they were and the call is made again; in every
\* state the bytes delivered and the bytes in the window are exactly the
\* bytes read so far (with the newline added at end of file), none lost and
\* none twice.
Thm_C16 ==
  /\ [][(OpenIntr \/ ReadIntr) =>
          UNCHANGED <<stream, pc, pos, buf, sbuf, ebuf, eof, ret, lines, records,
                      stopped, closes>>]_vars
  /\ []((pc \in {"loop", "read"}) =>
          \/ Accounted = SubSeq(stream, 1, pos)
          \/ eof /\ Accounted = SubSeq(stream, 1, pos) \o <<"\n">>)
  /\ []((pc = "read" /\ nread < 0) => (ENABLED ReadData \/ ENABLED ReadEof))

\* A read() in the middle of the source was interrupted after a line had been
\* delivered.
Witness_C16 ==
  /\ pc = "read"
  /\ nread < 0
  /\ lines = <<Valid1>>
  /\ pos > Len(Valid1) + 1
  /\ pos < Len(stream)

\* C18: the cursors stay ordered inside the buffer, 0 <= sbuf <= ebuf <=
\* buf_end; read() is asked for room that ends at buf_end and stores what it
\* returns below buf_end; the NUL over a newline lands inside the window,
\* below ebuf; the newline added at end of file lands below buf_end; and buf
\* keeps its kBufSize bytes.
Thm_C18 ==
  /\ [](/\ 0 <= sbuf
        /\ sbuf <= ebuf
        /\ ebuf <= buf_end
        /\ (pc # "idle" => DOMAIN buf = 0 .. kBufSize - 1))
  /\ [][DeliverLine => (sbuf <= nextline /\ nextline < ebuf)]_vars
  /\ [][AddNewline => (ebuf < buf_end /\ buf'[ebuf] = "\n")]_vars
  /\ [][ReadData => (ebuf < ebuf' /\ ebuf' <= buf_end
                       /\ \A k \in 0 .. ebuf - 1 : buf'[k] = buf[k])]_vars

\* The newline added at end of file was written at the last index below
\* buf_end.
Witness_C18 ==
  /\ pc = "loop"
  /\ eof
  /\ sbuf = 0
  /\ ebuf = buf_end
  /\ buf[buf_end - 1] = "\n"
  /\ lines = <<>>

\* C19: ForEachLine terminates: when the EINTR results end, every call
\* reaches a return; on the way a delivered line moves sbuf forward or
\* leaves the loop, a read returns new bytes or records end of file, the
\* newline added at end of file is found by the next search, and no read
\* follows end of file.
Thm_C19 ==
  /\ <>Returned
  /\ [][DeliverLine => (sbuf' > sbuf \/ pc' = "break")]_vars
  /\ [][ReadData => pos' > pos]_vars
  /\ [][(ReadEof \/ ReadError) => (~eof /\ eof')]_vars
  /\ [][AddNewline => (eof /\ nextline = NullOff /\ ebuf' = ebuf + 1
                         /\ buf'[ebuf] = "\n")]_vars
  /\ [][eof => pc' # "read"]_vars

\* A source of three lines was read to its end and the call returned.
Witness_C19 ==
  /\ Returned
  /\ ret
  /\ eof
  /\ pos = Len(stream)
  /\ Len(lines) = 3
  /\ closes = 1

\* C21: once body has returned false for a line, nothing more is delivered
\* and nothing more is read: the loop is left at once; the lines delivered,
\* that line last, are the leading lines of the source, each once and in
\* order; close(fd) is called once and ForEachLine returns true.
Thm_C21 ==
  /\ [](stopped =>
          /\ pc \in {"break", "done"}
          /\ lines # <<>>
          /\ ~BodyResults[lines[Len(lines)]].go
          /\ IsPrefix(lines, SplitLines(SubSeq(stream, 1, pos))))
  /\ [][stopped => (stopped' /\ UNCHANGED <<lines, records, pos, buf, sbuf, ebuf>>)]_vars
  /\ []((stopped /\ Returned) => (ret /\ closes = 1 /\ fd = "closed"))

\* body returned false on the second of three lines; the third was never
\* delivered and the call returned true.
Witness_C21 ==
  /\ Returned
  /\ stopped
  /\ ret
  /\ closes = 1
  /\ stream = Valid1 \o <<"\n">> \o Garbage \o <<"\n">> \o Valid2 \o <<"\n">>
  /\ lines = <<Valid1, Garbage>>

-----------------------------------------------------------------------------
(* DoForEachProcMapping over dl_iterate_phdr                                *)

\* The width of an address in bits.  The program's is 64; the model scales
\* it down and keeps the arithmetic modulo 2^AddrBits.
AddrBits == 3

Mod == 2 ^ AddrBits

\* Unsigned arithmetic of AddrBits bits.
Wrap(x) == x % Mod

\* a & b
RECURSIVE BitAnd(_, _)
BitAnd(a, b) ==
  IF a = 0 \/ b = 0 THEN 0
  ELSE (a % 2) * (b % 2) + 2 * BitAnd(a \div 2, b \div 2)

\* ~a
BitNot(a) == Mod - 1 - a

\* The most program headers an object of the model has.
MaxPhdrs == 2

\* uint64_t vaddr = phdr->p_vaddr + addr
SegVaddr(ph) == Wrap(ph.p_vaddr + dl_addr)

\* vaddr & (align - 1)
start_adj(vaddr, align) == BitAnd(vaddr, Wrap(align + Mod - 1))

\* (~(vaddr + size) + 1) & (align - 1)
end_adj(vaddr, size, align) ==
  BitAnd(Wrap(BitNot(Wrap(vaddr + size)) + 1), Wrap(align + Mod - 1))

\* vaddr -= start_adj
RoundedVaddr(vaddr, align) == Wrap(vaddr + Mod - start_adj(vaddr, align))

\* offset -= start_adj
RoundedOffset(offset, vaddr, align) ==
  Wrap(offset + Mod - start_adj(vaddr, align))

\* size += start_adj + end_adj
RoundedSize(vaddr, size, align) ==
  Wrap(size + start_adj(vaddr, align) + end_adj(vaddr, size, align))

\* char flags[5] = "---p" with r, w, x set from PF_R (4), PF_W (2), PF_X (1).
PhdrFlags(fl) ==
  <<IF BitAnd(fl, 4) # 0 THEN "r" ELSE "-",
    IF BitAnd(fl, 2) # 0 THEN "w" ELSE "-",
    IF BitAnd(fl, 1) # 0 THEN "x" ELSE "-",
    "p">>

\* The ProcMapping the callback fills for a PT_LOAD header.
PhdrMapping(ph, filename) ==
  [start    |-> RoundedVaddr(SegVaddr(ph), ph.p_align),
   end      |-> Wrap(RoundedVaddr(SegVaddr(ph), ph.p_align)
                     + RoundedSize(SegVaddr(ph), ph.p_filesz, ph.p_align)),
   flags    |-> Ptr(PhdrFlags(ph.p_flags)),
   offset   |-> RoundedOffset(ph.p_offset, SegVaddr(ph), ph.p_align),
   inode    |-> 0,
   filename |-> filename]

\* CHECK_EQ((size & (align - 1)), 0) holds.
SizeAligned(ph) ==
  BitAnd(RoundedSize(SegVaddr(ph), ph.p_filesz, ph.p_align),
         Wrap(ph.p_align + Mod - 1)) = 0

\* The alignments of the model: none (0 and 1), every power of two of the
\* address width, and one value that is no power of two.
Aligns == {0, 3} \cup { 2 ^ k : k \in 0 .. AddrBits - 1 }

\* The program headers an object may show.
LoadHeaders ==
  [p_type : {"PT_LOAD"}, p_vaddr : 0 .. Mod - 1, p_filesz : 0 .. Mod - 1,
   p_align : Aligns, p_offset : {0}, p_flags : {3, 6}]

OtherHeaders ==
  [p_type : {"PT_DYNAMIC"}, p_vaddr : {0}, p_filesz : {1}, p_align : {1},
   p_offset : {0}, p_flags : {4}]

ProgramName == <<"p", "r", "o", "g">>

InitPhdr ==
  /\ dl_addr \in {0, 1}
  /\ dl_name \in {NullPtr, Ptr(<<"/", "l", "i", "b">>)}
  /\ dl_phnum \in 0 .. MaxPhdrs
  /\ dl_i = 0
  /\ dl_phdr = [p_type |-> "none"]
  /\ dl_mapping = [flags |-> NullPtr]
  /\ dl_calls = 0
  /\ dl_pc = "enter"
  /\ IdleReader
  /\ IdleParse
  /\ IdleFormat
  /\ IdleSolaris
  /\ IdleOSX

\* The callback is entered: the mapping is zeroed and its filename chosen;
\* GetProgramInvocationName may return null.
DlEnter ==
  /\ dl_pc = "enter"
  /\ \E prog \in {NullPtr, Ptr(ProgramName)} :
       dl_mapping' =
         [start |-> 0, end |-> 0, flags |-> NullPtr, offset |-> 0, inode |-> 0,
          filename |-> IF dl_name.null \/ dl_name.str = <<>>
                       THEN (IF prog.null THEN <<>> ELSE prog.str)
                       ELSE dl_name.str]
  /\ dl_i' = 0
  /\ dl_pc' = "loop"
  /\ UNCHANGED <<dl_addr, dl_name, dl_phnum, dl_phdr, dl_calls>>
  /\ UNCHANGED <<readerVars, parseVars, formatVars, solVars, osxVars>>

\* A header that is not PT_LOAD: continue.
DlSkip ==
  /\ dl_pc = "loop"
  /\ dl_i < dl_phnum
  /\ \E ph \in OtherHeaders : dl_phdr' = ph
  /\ dl_i' = dl_i + 1
  /\ UNCHANGED <<dl_addr, dl_name, dl_phnum, dl_mapping, dl_calls, dl_pc>>
  /\ UNCHANGED <<readerVars, parseVars, formatVars, solVars, osxVars>>

\* A PT_LOAD header whose rounded size passes the CHECK_EQ: body is called.
DlLoad ==
  /\ dl_pc = "loop"
  /\ dl_i < dl_phnum
  /\ \E ph \in LoadHeaders :
       /\ SizeAligned(ph)
       /\ dl_phdr' = ph
       /\ dl_mapping' = PhdrMapping(ph, dl_mapping.filename)
  /\ dl_calls' = dl_calls + 1
  /\ dl_i' = dl_i + 1
  /\ UNCHANGED <<dl_addr, dl_name, dl_phnum, dl_pc>>
  /\ UNCHANGED <<readerVars, parseVars, formatVars, solVars, osxVars>>

\* A PT_LOAD header whose rounded size fails the CHECK_EQ: the process aborts.
DlCheckFail ==
  /\ dl_pc = "loop"
  /\ dl_i < dl_phnum
  /\ \E ph \in LoadHeaders :
       /\ ~SizeAligned(ph)
       /\ dl_phdr' = ph
  /\ dl_pc' = "abort"
  /\ UNCHANGED <<dl_addr, dl_name, dl_phnum, dl_i, dl_mapping, dl_calls>>
  /\ UNCHANGED <<readerVars, parseVars, formatVars, solVars, osxVars>>

\* The loop is over: return 0.
DlReturn ==
  /\ dl_pc = "loop"
  /\ dl_i >= dl_phnum
  /\ dl_pc' = "done"
  /\ UNCHANGED <<dl_addr, dl_name, dl_phnum, dl_i, dl_phdr, dl_mapping, dl_calls>>
  /\ UNCHANGED <<readerVars, parseVars, formatVars, solVars, osxVars>>

NextPhdr == DlEnter \/ DlSkip \/ DlLoad \/ DlCheckFail \/ DlReturn

SpecPhdr == InitPhdr /\ [][NextPhdr]_vars

\* The header last examined was a PT_LOAD one and body received its mapping.
SegmentDelivered ==
  dl_pc \in {"loop", "done"} /\ dl_phdr.p_type = "PT_LOAD" /\ dl_calls > 0

\* An alignment a loader presents: none (0 or 1) or a power of two.
LoaderAlign(a) == a = 0 \/ \E k \in 0 .. AddrBits - 1 : a = 2 ^ k

\* x rounded up to a multiple of a (a = 0 taken as no alignment).
RoundUp(x, a) == IF a <= 1 THEN x ELSE ((x + a - 1) \div a) * a

\* The segment, and its range widened to the alignment, lie inside the
\* address space: nothing wraps around.
SegmentFits(ph) ==
  /\ ph.p_vaddr + dl_addr < Mod
  /\ RoundUp(ph.p_vaddr + dl_addr + ph.p_filesz, ph.p_align) < Mod

\* C12: for every PT_LOAD segment with an alignment a loader presents
\* (0 and 1 included), the region handed to body contains the segment's
\* range [vaddr, vaddr + size), its size is a multiple of the alignment, and
\* the CHECK_EQ on the rounded size does not fail.
CE_C12 ==
  /\ (SegmentDelivered /\ LoaderAlign(dl_phdr.p_align) /\ SegmentFits(dl_phdr))
       => /\ dl_mapping.start <= SegVaddr(dl_phdr)
          /\ dl_mapping.end >= SegVaddr(dl_phdr) + dl_phdr.p_filesz
          /\ (dl_phdr.p_align > 1
                => (dl_mapping.end - dl_mapping.start) % dl_phdr.p_align = 0)
  /\ dl_pc = "abort" => ~LoaderAlign(dl_phdr.p_align)

-----------------------------------------------------------------------------
(* DoIterateSolaris                                                         *)

\* The most records /proc/self/map holds in the model.
MaxMaps == 2

\* static char kPerms[8][4], indexed by pr_mflags & 7.
kPerms ==
  << <<"-", "-", "-">>, <<"-", "-", "x">>, <<"-", "w", "-">>, <<"-", "w", "x">>,
     <<"r", "-", "-">>, <<"r", "-", "x">>, <<"r", "w", "-">>, <<"r", "w", "x">> >>

\* The prmap_t records of the model; pr_mflags may carry bits above
\* MA_READ | MA_WRITE | MA_EXEC.
PrMaps ==
  [pr_vaddr : {1, Mod - 2}, pr_size : {1, 3}, pr_mflags : {0, 5, 6, 13},
   pr_offset : {0}]

\* The ProcMapping DoIterateSolaris fills from a record; the other fields
\* stay as memset left them.
SolarisMapping(mapinfo, filename) ==
  [start    |-> mapinfo.pr_vaddr,
   end      |-> Wrap(mapinfo.pr_vaddr + mapinfo.pr_size),
   flags    |-> Ptr(kPerms[BitAnd(mapinfo.pr_mflags, 7) + 1]),
   offset   |-> mapinfo.pr_offset,
   inode    |-> 0,
   filename |-> filename]

InitSolaris ==
  /\ sol_maps \in UNION { [1 .. n -> PrMaps] : n \in 0 .. MaxMaps }
  /\ sol_fd = "none"
  /\ sol_pos = 0
  /\ sol_mapping = [flags |-> NullPtr]
  /\ sol_calls = 0
  /\ sol_badreads = 0
  /\ sol_ret = FALSE
  /\ sol_pc = "open"
  /\ IdleReader
  /\ IdleParse
  /\ IdleFormat
  /\ IdlePhdr
  /\ IdleOSX

\* open() succeeds.
SolOpen ==
  /\ sol_pc = "open"
  /\ sol_fd' = "open"
  /\ sol_pc' = "loop"
  /\ UNCHANGED <<sol_maps, sol_pos, sol_mapping, sol_calls, sol_badreads, sol_ret>>
  /\ UNCHANGED <<readerVars, parseVars, formatVars, phdrVars, osxVars>>

\* open() fails: fd is negative, and the function goes on to its loop.
SolOpenFail ==
  /\ sol_pc = "open"
  /\ sol_fd' = "failed"
  /\ sol_pc' = "loop"
  /\ UNCHANGED <<sol_maps, sol_pos, sol_mapping, sol_calls, sol_badreads, sol_ret>>
  /\ UNCHANGED <<readerVars, parseVars, formatVars, phdrVars, osxVars>>

\* read() returns a whole record: the object's path is looked up (readlink
\* may fail, which gives the empty name) and body is called.
SolReadRecord ==
  /\ sol_pc = "loop"
  /\ sol_fd = "open"
  /\ sol_pos < Len(sol_maps)
  /\ \E name \in { <<>>, <<"/", "l", "i", "b">> } :
       sol_mapping' = SolarisMapping(sol_maps[sol_pos + 1], name)
  /\ sol_pos' = sol_pos + 1
  /\ sol_calls' = sol_calls + 1
  /\ UNCHANGED <<sol_maps, sol_fd, sol_badreads, sol_ret, sol_pc>>
  /\ UNCHANGED <<readerVars, parseVars, formatVars, phdrVars, osxVars>>

\* read() returns 0: CHECK_EQ(nread, 0) holds, break.
SolReadEnd ==
  /\ sol_pc = "loop"
  /\ sol_fd = "open"
  /\ sol_pos = Len(sol_maps)
  /\ sol_pc' = "break"
  /\ UNCHANGED <<sol_maps, sol_fd, sol_pos, sol_mapping, sol_calls,
                 sol_badreads, sol_ret>>
  /\ UNCHANGED <<readerVars, parseVars, formatVars, phdrVars, osxVars>>

\* read() on the open file fails with an error other than EINTR: nread is
\* -1, CHECK_EQ(nread, 0) fails and the process aborts.
SolReadError ==
  /\ sol_pc = "loop"
  /\ sol_fd = "open"
  /\ sol_pc' = "abort"
  /\ UNCHANGED <<sol_maps, sol_fd, sol_pos, sol_mapping, sol_calls,
                 sol_badreads, sol_ret>>
  /\ UNCHANGED <<readerVars, parseVars, formatVars, phdrVars, osxVars>>

\* read() on the negative fd: it fails with EBADF, nread is -1,
\* CHECK_EQ(nread, 0) fails and the process aborts.
SolReadInvalid ==
  /\ sol_pc = "loop"
  /\ sol_fd = "failed"
  /\ sol_badreads' = sol_badreads + 1
  /\ sol_pc' = "abort"
  /\ UNCHANGED <<sol_maps, sol_fd, sol_pos, sol_mapping, sol_calls, sol_ret>>
  /\ UNCHANGED <<readerVars, parseVars, formatVars, phdrVars, osxVars>>

\* After the loop: close(fd); return true.
SolClose ==
  /\ sol_pc = "break"
  /\ sol_fd' = "closed"
  /\ sol_ret' = TRUE
  /\ sol_pc' = "done"
  /\ UNCHANGED <<sol_maps, sol_pos, sol_mapping, sol_calls, sol_badreads>>
  /\ UNCHANGED <<readerVars, parseVars, formatVars, phdrVars, osxVars>>

NextSolaris ==
  \/ SolOpen
  \/ SolOpenFail
  \/ SolReadRecord
  \/ SolReadEnd
  \/ SolReadError
  \/ SolReadInvalid
  \/ SolClose

SpecSolaris == InitSolaris /\ [][NextSolaris]_vars

\* C13: when the source cannot be opened, the enumeration returns failure,
\* body is never called, no read is attempted on the invalid handle and no
\* assertion aborts the process.  (Here for the binary record stream of
\* DoIterateSolaris.)
CE_C13 ==
  sol_fd = "failed" =>
    /\ sol_calls = 0
    /\ sol_badreads = 0
    /\ sol_pc # "abort"
    /\ (sol_pc = "done" => ~sol_ret)

-----------------------------------------------------------------------------
(* DoIterateOSX                                                             *)

\* The most images loaded, and the most load commands of an image.
MaxImages == 2
MaxCmds == 2

\* The load commands of the model: a 64-bit and a 32-bit segment command.
LoadCommands ==
  { [cmd |-> "LC_SEGMENT_64", vmaddr |-> 1, vmsize |-> 2, fileoff |-> 0],
    [cmd |-> "LC_SEGMENT", vmaddr |-> 3, vmsize |-> 1, fileoff |-> 1] }

\* What _dyld_get_image_header returns for an index without an image.
NullHeader == [null |-> TRUE, magic |-> "none", slide |-> 0, cmds |-> <<>>]

\* The headers of the model, ncmds being Len(cmds).
MachHeaders ==
  {NullHeader} \cup
  [null : {FALSE}, magic : {"MH_MAGIC_64", "MH_MAGIC"}, slide : {2},
   cmds : UNION { [1 .. n -> LoadCommands] : n \in 0 .. MaxCmds }]

\* _dyld_image_count()
ImageCount == Len(osx_images)

\* _dyld_get_image_header(i): null for an index out of range.
ImageHeader(i) ==
  IF i >= 0 /\ i < ImageCount THEN osx_images[i + 1] ELSE NullHeader

\* NextExtMachHelper<kMagic, kLCSegment> returns true: the header has the
\* magic and load command j is a segment command of that kind.
NextExtMachHelper(hdr, j, kMagic, kLCSegment) ==
  hdr.magic = kMagic /\ hdr.cmds[j + 1].cmd = kLCSegment

\* One of the two instantiations returns true for load command j.
SegmentFound(hdr, j) ==
  \/ NextExtMachHelper(hdr, j, "MH_MAGIC_64", "LC_SEGMENT_64")
  \/ NextExtMachHelper(hdr, j, "MH_MAGIC", "LC_SEGMENT")

\* The fields NextExtMachHelper stores for the segment command sc; inode
\* stays as memset left it.
SegmentMapping(hdr, sc) ==
  [start    |-> Wrap(sc.vmaddr + hdr.slide),
   end      |-> Wrap(sc.vmaddr + sc.vmsize + hdr.slide),
   flags    |-> Ptr(<<"r", "-", "x", "p">>),
   offset   |-> sc.fileoff,
   inode    |-> 0,
   filename |-> <<"/", "l", "i", "b">>]

InitOSX ==
  /\ osx_images \in UNION { [1 .. n -> MachHeaders] : n \in 0 .. MaxImages }
  /\ osx_image = 0
  /\ osx_cmd = 0
  /\ osx_mapping = [flags |-> NullPtr]
  /\ osx_delivered = <<>>
  /\ osx_ret = FALSE
  /\ osx_pc = "start"
  /\ IdleReader
  /\ IdleParse
  /\ IdleFormat
  /\ IdlePhdr
  /\ IdleSolaris

\* Entry: current_image = _dyld_image_count(), current_load_cmd = -1, the
\* mapping is zeroed.
OsxStart ==
  /\ osx_pc = "start"
  /\ osx_image' = ImageCount
  /\ osx_cmd' = 0 - 1
  /\ osx_mapping' = [start |-> 0, end |-> 0, flags |-> NullPtr, offset |-> 0,
                     inode |-> 0, filename |-> <<>>]
  /\ osx_pc' = "outer"
  /\ UNCHANGED <<osx_images, osx_delivered, osx_ret>>
  /\ UNCHANGED <<readerVars, parseVars, formatVars, phdrVars, solVars>>

\* The image has no header: continue, which decrements current_image.
OsxNullHeader ==
  /\ osx_pc = "outer"
  /\ osx_image >= 0
  /\ ImageHeader(osx_image).null
  /\ osx_image' = osx_image - 1
  /\ UNCHANGED <<osx_images, osx_cmd, osx_mapping, osx_delivered, osx_ret, osx_pc>>
  /\ UNCHANGED <<readerVars, parseVars, formatVars, phdrVars, solVars>>

\* The inner loop is entered with every load command of the image again,
\* whatever current_load_cmd was.
OsxEnterImage_Restart ==
  /\ osx_pc = "outer"
  /\ osx_image >= 0
  /\ ~ImageHeader(osx_image).null
  /\ osx_cmd' = Len(ImageHeader(osx_image).cmds) - 1
  /\ osx_pc' = "inner"
  /\ UNCHANGED <<osx_images, osx_image, osx_mapping, osx_delivered, osx_ret>>
  /\ UNCHANGED <<readerVars, parseVars, formatVars, phdrVars, solVars>>

\* The image has a header: current_load_cmd is set to ncmds if it is
\* negative, and the inner loop starts with current_load_cmd--.
OsxEnterImage ==
  /\ osx_pc = "outer"
  /\ osx_image >= 0
  /\ ~ImageHeader(osx_image).null
  /\ osx_cmd' = (IF osx_cmd < 0 THEN Len(ImageHeader(osx_image).cmds)
                  ELSE osx_cmd) - 1
  /\ osx_pc' = "inner"
  /\ UNCHANGED <<osx_images, osx_image, osx_mapping, osx_delivered, osx_ret>>
  /\ UNCHANGED <<readerVars, parseVars, formatVars, phdrVars, solVars>>

\* The load command is a segment command of the header's kind: the mapping
\* is filled, body is called, goto reenter.
OsxSegment ==
  /\ osx_pc = "inner"
  /\ osx_cmd >= 0
  /\ SegmentFound(ImageHeader(osx_image), osx_cmd)
  /\ osx_mapping' = SegmentMapping(ImageHeader(osx_image),
                                   ImageHeader(osx_image).cmds[osx_cmd + 1])
  /\ osx_delivered' = Append(osx_delivered, <<osx_image, osx_cmd>>)
  /\ osx_pc' = "outer"
  /\ UNCHANGED <<osx_images, osx_image, osx_cmd, osx_ret>>
  /\ UNCHANGED <<readerVars, parseVars, formatVars, phdrVars, solVars>>

\* Any other load command: current_load_cmd--.
OsxOtherCommand ==
  /\ osx_pc = "inner"
  /\ osx_cmd >= 0
  /\ ~SegmentFound(ImageHeader(osx_image), osx_cmd)
  /\ osx_cmd' = osx_cmd - 1
  /\ UNCHANGED <<osx_images, osx_image, osx_mapping, osx_delivered, osx_ret, osx_pc>>
  /\ UNCHANGED <<readerVars, parseVars, formatVars, phdrVars, solVars>>

\* No load command is left in this image: current_image--.
OsxNextImage ==
  /\ osx_pc = "inner"
  /\ osx_cmd < 0
  /\ osx_image' = osx_image - 1
  /\ osx_pc' = "outer"
  /\ UNCHANGED <<osx_images, osx_cmd, osx_mapping, osx_delivered, osx_ret>>
  /\ UNCHANGED <<readerVars, parseVars, formatVars, phdrVars, solVars>>

\* current_image < 0: return true.
OsxReturn ==
  /\ osx_pc = "outer"
  /\ osx_image < 0
  /\ osx_ret' = TRUE
  /\ osx_pc' = "done"
  /\ UNCHANGED <<osx_images, osx_image, osx_cmd, osx_mapping, osx_delivered>>
  /\ UNCHANGED <<readerVars, parseVars, formatVars, phdrVars, solVars>>

NextOSX ==
  \/ OsxStart
  \/ OsxNullHeader
  \/ OsxEnterImage
  \/ OsxSegment
  \/ OsxOtherCommand
  \/ OsxNextImage
  \/ OsxReturn

SpecOSX == InitOSX /\ [][NextOSX]_vars

\* The calling thread keeps running and body returns.
SpecOSXFair == InitOSX /\ [][NextOSX]_vars /\ WF_vars(NextOSX)

\* The segment commands of image i with index below j that match the
\* header's kind, from the top down.
RECURSIVE SegmentsBelow(_, _)
SegmentsBelow(i, j) ==
  IF j <= 0 THEN <<>>
  ELSE (IF SegmentFound(ImageHeader(i), j - 1) THEN << <<i, j - 1>> >> ELSE <<>>)
         \o SegmentsBelow(i, j - 1)

\* The same for every image with index below i, from the top down.
RECURSIVE SegmentsOfImagesBelow(_)
SegmentsOfImagesBelow(i) ==
  IF i <= 0 THEN <<>>
  ELSE SegmentsBelow(i - 1, Len(ImageHeader(i - 1).cmds))
         \o SegmentsOfImagesBelow(i - 1)

\* a comes before b in the walk: a higher image, or the same image and a
\* higher load command.
WalkedBefore(a, b) == a[1] > b[1] \/ (a[1] = b[1] /\ a[2] > b[2])

\* C20: with an unchanging image set DoIterateOSX calls body once for every
\* load command that is a segment command of its header's kind, images from
\* the highest index down and load commands of an image from the highest
\* down; no command is delivered twice or skipped after a reenter, an index
\* without header is passed over, and the walk returns true.
Thm_C20 ==
  /\ [](\A m, n \in 1 .. Len(osx_delivered) :
          m < n => WalkedBefore(osx_delivered[m], osx_delivered[n]))
  /\ [](IsPrefix(osx_delivered, SegmentsOfImagesBelow(ImageCount)))
  /\ [](osx_pc = "done" =>
          /\ osx_ret
          /\ osx_delivered = SegmentsOfImagesBelow(ImageCount))
  /\ <>(osx_pc = "done")

\* Of two images the lower has no header; both segment commands of the upper
\* were delivered from the top down, the lower index was passed over, and the
\* walk returned.
Witness_C20 ==
  /\ osx_pc = "done"
  /\ osx_ret
  /\ ImageCount = 2
  /\ osx_images[1].null
  /\ osx_delivered = << <<1, 1>>, <<1, 0>> >>

====
